---- MODULE Spec2Model ----
(***************************************************************************)
(* A model of the persuasion RPG: the GameState mutation rules             *)
(* (src/src/models/game_state.py), the schemas (src/src/models/schemas.py),*)
(* the GPT client's JSON recovery and retry loops                          *)
(* (src/src/services/gpt_client.py) and the controller's run loop          *)
(* (src/src/controllers/game_controller.py).                               *)
(*                                                                         *)
(* Text that the code inspects character by character (outcome types,      *)
(* branch titles, what the player types) is a tuple of one-character       *)
(* strings.  Model output is a tuple of lexical tokens: "{" "}" braces,    *)
(* "m" a well-formed member list, "k" a key followed by a colon, "1" a     *)
(* bare JSON scalar, "x" brace-free prose, "F" a ``` fence, "j" a language *)
(* tag and "\n" a line break; "c" and "o" are a member, with the comma     *)
(* after it, whose value is a string that holds a closing, an opening      *)
(* brace character.                                                        *)
(***************************************************************************)
EXTENDS Integers, Sequences, FiniteSets, TLC

VARIABLES
    pc,             \* where GameController.run stands: setting, request, prompt, done
    state,          \* GameController.state: NoState or a GameState record
    retry_message,  \* GameController.retry_message
    shown,          \* the view calls made since the last input was read
    op,             \* the client operation in progress: none, world, play, retry
    arg,            \* its argument: the setting or the player message
    attempt,        \* loop index of _request_with_constraints
    tries,          \* loop index of _complete
    requests,       \* completion requests made by the operation so far
    plan,           \* how the last plan_turn / generate_world ended
    delay,          \* the local delay of _complete, in half seconds
    slept,          \* the time.sleep of the last step, in half seconds; 0: none
    call            \* the call under study of the specifications of one function

vars ==
    <<pc, state, retry_message, shown, op, arg, attempt, tries, requests, plan, delay, slept,
      call>>

\* Python's None, told apart from every text of the model
None == <<"None">>

Max(a, b) == IF a >= b THEN a ELSE b

Min(a, b) == IF a <= b THEN a ELSE b

(***************************************************************************)
(* str.strip, str.lower, str.capitalize on tuples of characters.           *)
(***************************************************************************)
Uppers == <<"A", "B", "C", "D", "E", "F", "G", "H", "I", "J", "K", "L", "M",
            "N", "O", "P", "Q", "R", "S", "T", "U", "V", "W", "X", "Y", "Z">>

Lowers == <<"a", "b", "c", "d", "e", "f", "g", "h", "i", "j", "k", "l", "m",
            "n", "o", "p", "q", "r", "s", "t", "u", "v", "w", "x", "y", "z">>

RECURSIVE Pairing(_, _)
Pairing(from, to) ==
    IF from = <<>> THEN <<>>
    ELSE (Head(from) :> Head(to)) @@ Pairing(Tail(from), Tail(to))

LowerOf == Pairing(Uppers, Lowers)

UpperOf == Pairing(Lowers, Uppers)

IsSpace(c) == c \in {" ", "\n", "\t"}

CharLower(c) == IF c \in DOMAIN LowerOf THEN LowerOf[c] ELSE c

CharUpper(c) == IF c \in DOMAIN UpperOf THEN UpperOf[c] ELSE c

RECURSIVE StrLower(_)
StrLower(s) == IF s = <<>> THEN <<>> ELSE <<CharLower(Head(s))>> \o StrLower(Tail(s))

RECURSIVE LStrip(_)
LStrip(s) == IF s # <<>> /\ IsSpace(Head(s)) THEN LStrip(Tail(s)) ELSE s

RECURSIVE RStrip(_)
RStrip(s) ==
    IF s # <<>> /\ IsSpace(s[Len(s)]) THEN RStrip(SubSeq(s, 1, Len(s) - 1)) ELSE s

StrStrip(s) == RStrip(LStrip(s))

\* str.capitalize
Capitalize(s) ==
    IF s = <<>> THEN <<>> ELSE <<CharUpper(Head(s))>> \o StrLower(Tail(s))

Success == <<"S", "u", "c", "c", "e", "s", "s">>

Failure == <<"F", "a", "i", "l", "u", "r", "e">>

Alternative == <<"A", "l", "t", "e", "r", "n", "a", "t", "i", "v", "e">>

\* The literals "success", "failure", "alternative" the code compares with.
success == StrLower(Success)

failure == StrLower(Failure)

alternative == StrLower(Alternative)

(***************************************************************************)
(* schemas.py                                                              *)
(***************************************************************************)
\* TurnResolutionSchema.normalised_outcome
MutNormalisedOutcome(raw) == Capitalize(StrStrip(raw))

normalised_outcome(raw) ==
    LET outcome == StrLower(StrStrip(raw))
    IN  IF outcome \in {success, failure, alternative}
        THEN Capitalize(outcome)
        ELSE Alternative

\* NPCSchema: name is required, resistance has ge=0.
NPCSchemaValid(p) == p.has_name /\ p.resistance >= 0

\* WorldSetupSchema.model_validate on a decoded value.
WorldSchemaValid(kind, p) ==
    /\ kind = "object"
    /\ p.has_required
    /\ \A i \in 1..Len(p.npcs) : NPCSchemaValid(p.npcs[i])

\* TurnResolutionSchema.model_validate on a decoded value.
TurnSchemaValid(kind, p) ==
    /\ kind = "object"
    /\ p.has_required
    /\ NPCSchemaValid(p.active_npc)

(***************************************************************************)
(* game_state.py                                                           *)
(***************************************************************************)
NoState == [none |-> TRUE]

\* NPCState.adjust
MutAdjust(npc, resistance_delta, relationship_delta) ==
    [npc EXCEPT !.resistance = @ + resistance_delta,
                !.relationship = @ + relationship_delta]

adjust(npc, resistance_delta, relationship_delta) ==
    [npc EXCEPT !.resistance = Max(0, @ + resistance_delta),
                !.relationship = @ + relationship_delta]

\* NPCState.from_schema, and the NPCState built by ensure_npc
NPCStateOf(p) ==
    [name |-> p.name, description |-> p.description, personality |-> p.personality,
     resistance |-> p.resistance, relationship |-> p.relationship]

\* GameState.from_world_schema: a dict comprehension, the last entry of a name wins.
from_world_schema(setting, schema) ==
    LET names == {schema.npcs[i].name : i \in 1..Len(schema.npcs)}
        last(n) == CHOOSE i \in 1..Len(schema.npcs) :
                      /\ schema.npcs[i].name = n
                      /\ \A j \in 1..Len(schema.npcs) : schema.npcs[j].name = n => j <= i
    IN  [world_setting |-> setting,
         opening_scene |-> schema.opening_scene,
         current_problem |-> schema.initial_problem,
         npcs |-> [n \in names |-> NPCStateOf(schema.npcs[last(n)])],
         turn_history |-> <<>>,
         total_successes |-> 0,
         total_failures |-> 0,
         pending_branches |-> <<>>]

\* GameState.ensure_npc: the roster after the call
MutEnsureNpc(npcs, npc_payload) ==
    [n \in DOMAIN npcs \cup {npc_payload.name} |->
        IF n = npc_payload.name THEN NPCStateOf(npc_payload) ELSE npcs[n]]

ensure_npc(npcs, npc_payload) ==
    IF npc_payload.name \in DOMAIN npcs
    THEN npcs
    ELSE [n \in DOMAIN npcs \cup {npc_payload.name} |->
             IF n = npc_payload.name THEN NPCStateOf(npc_payload) ELSE npcs[n]]

\* GameState._normalize_deltas
MutNormalizeDeltas(outcome, resistance_change, relationship_change) ==
    <<resistance_change, relationship_change>>

MutNormalizeFailure(outcome, resistance_change, relationship_change) ==
    IF StrLower(StrStrip(outcome)) = success
    THEN <<Min(resistance_change, -1), Max(relationship_change, 1)>>
    ELSE <<Max(Min(resistance_change, 2), -2), Max(Min(relationship_change, 2), -2)>>

_normalize_deltas(outcome, resistance_change, relationship_change) ==
    LET outcome_key == StrLower(StrStrip(outcome))
    IN  IF outcome_key = success
        THEN <<Min(resistance_change, -1), Max(relationship_change, 1)>>
        ELSE IF outcome_key = failure
        THEN <<Max(resistance_change, 0), Min(relationship_change, 0)>>
        ELSE <<Max(Min(resistance_change, 2), -2), Max(Min(relationship_change, 2), -2)>>

\* GameState.record_turn: the GameState after the call
MutRecordTurn(gs, record) ==
    [gs EXCEPT !.turn_history = <<[record EXCEPT !.turn_number = 1]>> \o @,
               !.pending_branches = record.branches]

MutRecordCounts(gs, record) ==
    LET numbered == [record EXCEPT !.turn_number = Len(gs.turn_history) + 1]
        key == StrLower(record.outcome_type)
    IN  [gs EXCEPT !.turn_history = Append(@, numbered),
                   !.total_successes = IF key # failure THEN @ + 1 ELSE @,
                   !.total_failures  = IF key = failure THEN @ + 1 ELSE @,
                   !.pending_branches = record.branches]

record_turn(gs, record) ==
    LET numbered == [record EXCEPT !.turn_number = Len(gs.turn_history) + 1]
        key == StrLower(record.outcome_type)
    IN  [gs EXCEPT !.turn_history = Append(@, numbered),
                   !.total_successes = IF key = success THEN @ + 1 ELSE @,
                   !.total_failures  = IF key = failure THEN @ + 1 ELSE @,
                   !.pending_branches = record.branches]

\* GameState.apply_resolution: the GameState after the call
MutApply(gs, resolution, player_message, late_dilemma, proposed_shifts) ==
    LET roster  == ensure_npc(gs.npcs, resolution.active_npc)
        name    == resolution.active_npc.name
        prev    == roster[name]
        deltas  == _normalize_deltas(normalised_outcome(resolution.outcome_type),
                                     resolution.npc_resistance_change,
                                     resolution.npc_relationship_change)
        npc     == adjust(prev, deltas[1], deltas[2])
        branches == SubSeq(resolution.branches, 1, Min(3, Len(resolution.branches)))
        problem == IF resolution.next_problem # "" THEN resolution.next_problem
                   ELSE gs.current_problem
        record  == [turn_number |-> 0,
                    npc_name |-> npc.name,
                    dilemma |-> IF late_dilemma THEN problem ELSE gs.current_problem,
                    player_message |-> player_message,
                    npc_response |-> resolution.npc_response,
                    outcome_type |-> normalised_outcome(resolution.outcome_type),
                    outcome_summary |-> resolution.outcome_summary,
                    resistance_shift |-> IF proposed_shifts THEN deltas[1]
                                         ELSE npc.resistance - prev.resistance,
                    relationship_shift |-> IF proposed_shifts THEN deltas[2]
                                           ELSE npc.relationship - prev.relationship,
                    branches |-> branches]
        recorded == record_turn([gs EXCEPT !.npcs = [roster EXCEPT ![name] = npc]], record)
    IN  [recorded EXCEPT !.current_problem = problem, !.pending_branches = branches]

MutApplyLateDilemma(gs, resolution, player_message) ==
    MutApply(gs, resolution, player_message, TRUE, FALSE)

MutApplyProposedShifts(gs, resolution, player_message) ==
    MutApply(gs, resolution, player_message, FALSE, TRUE)

apply_resolution(gs, resolution, player_message) ==
    LET roster  == ensure_npc(gs.npcs, resolution.active_npc)
        name    == resolution.active_npc.name
        prev    == roster[name]
        deltas  == _normalize_deltas(normalised_outcome(resolution.outcome_type),
                                     resolution.npc_resistance_change,
                                     resolution.npc_relationship_change)
        npc     == adjust(prev, deltas[1], deltas[2])
        branches == SubSeq(resolution.branches, 1, Min(3, Len(resolution.branches)))
        record  == [turn_number |-> 0,
                    npc_name |-> npc.name,
                    dilemma |-> gs.current_problem,
                    player_message |-> player_message,
                    npc_response |-> resolution.npc_response,
                    outcome_type |-> normalised_outcome(resolution.outcome_type),
                    outcome_summary |-> resolution.outcome_summary,
                    resistance_shift |-> npc.resistance - prev.resistance,
                    relationship_shift |-> npc.relationship - prev.relationship,
                    branches |-> branches]
        recorded == record_turn([gs EXCEPT !.npcs = [roster EXCEPT ![name] = npc]], record)
    IN  [recorded EXCEPT
            !.current_problem = IF resolution.next_problem # "" THEN resolution.next_problem
                                ELSE @,
            !.pending_branches = branches]

\* GameState.last_active_npc
last_active_npc(turn_history) ==
    IF turn_history = <<>> THEN None ELSE turn_history[Len(turn_history)].npc_name

\* GameState.consecutive_npc_streak: the loop over reversed(turn_history),
\* about to read the record at idx with `count` records counted.
MutStreakLoop(turn_history, idx, count) ==
    Cardinality({i \in 1..idx :
                    turn_history[i].npc_name = turn_history[Len(turn_history)].npc_name})

RECURSIVE StreakLoop(_, _, _)
StreakLoop(turn_history, idx, count) ==
    IF idx = 0 THEN count
    ELSE IF turn_history[idx].npc_name = turn_history[Len(turn_history)].npc_name
    THEN StreakLoop(turn_history, idx - 1, count + 1)
    ELSE count

consecutive_npc_streak(turn_history) ==
    IF turn_history = <<>> THEN <<None, 0>>
    ELSE <<turn_history[Len(turn_history)].npc_name,
           StreakLoop(turn_history, Len(turn_history), 0)>>

\* A Python slice bound on a sequence of the given length: a negative bound
\* counts from the end, and a bound outside the sequence is the nearer end.
SliceBound(length, bound) ==
    IF bound < 0 THEN Max(0, length + bound) ELSE Min(length, bound)

\* seq[start:]
SliceFrom(seq, start) == SubSeq(seq, SliceBound(Len(seq), start) + 1, Len(seq))

\* seq[:stop]
SliceTo(seq, stop) == SubSeq(seq, 1, SliceBound(Len(seq), stop))

\* GameState.recent_history: one dict for each record of turn_history[-limit:]
recent_history(turn_history, limit) ==
    LET records == SliceFrom(turn_history, 0 - limit)
    IN  [i \in 1..Len(records) |->
            [turn |-> records[i].turn_number,
             npc |-> records[i].npc_name,
             dilemma |-> records[i].dilemma,
             player_message |-> records[i].player_message,
             npc_response |-> records[i].npc_response,
             outcome |-> records[i].outcome_type,
             outcome_summary |-> records[i].outcome_summary,
             resistance_shift |-> records[i].resistance_shift,
             relationship_shift |-> records[i].relationship_shift,
             branches |-> records[i].branches]]

\* The snippet narrative_context writes for a record,
\* "Turn {turn_number}: {npc_name} -> {outcome_type}; {outcome_summary[:80]}",
\* as the values it is formatted from; the summaries here are shorter than
\* 80 characters, so the cut leaves them whole.
Snippet(record) ==
    [turn |-> record.turn_number, npc |-> record.npc_name,
     outcome |-> record.outcome_type, outcome_summary |-> record.outcome_summary]

\* The separator " | " of the summary.
Bar == [separator |-> " | "]

\* " | ".join(snippets): the snippets with the separator between them; the
\* empty tuple is the empty string.
RECURSIVE JoinSnippets(_)
JoinSnippets(snippets) ==
    IF snippets = <<>> THEN <<>>
    ELSE IF Len(snippets) = 1 THEN <<snippets[1]>>
    ELSE <<snippets[1], Bar>> \o JoinSnippets(Tail(snippets))

\* GameState.narrative_context
narrative_context(turn_history, recent_limit) ==
    LET recent == recent_history(turn_history, recent_limit)
        older == IF recent_limit # 0 THEN SliceTo(turn_history, 0 - recent_limit)
                 ELSE turn_history
    IN  [summary |-> IF older = <<>> THEN <<>>
                     ELSE JoinSnippets([i \in 1..Len(older) |-> Snippet(older[i])]),
         recent |-> recent]

(***************************************************************************)
(* gpt_client.py: JSON recovery                                            *)
(***************************************************************************)
\* What json.loads makes of a text: whitespace between tokens is skipped.
NoBreaks(text) == SelectSeq(text, LAMBDA t : t # "\n")

\* The members of an object after its leading members with a string value.
RECURSIVE SkipStrings(_)
SkipStrings(members) ==
    IF members # <<>> /\ Head(members) \in {"c", "o"} THEN SkipStrings(Tail(members))
    ELSE members

RECURSIVE IsJsonObject(_)
IsJsonObject(t) ==
    /\ Len(t) >= 2
    /\ t[1] = "{"
    /\ t[Len(t)] = "}"
    /\ LET inner == SubSeq(t, 2, Len(t) - 1)
           last == SkipStrings(inner)
       IN  \/ inner = <<>>
           \/ last = <<"m">>
           \/ Len(last) >= 3 /\ last[1] = "k" /\ IsJsonObject(Tail(last))

\* json.loads: "object", "scalar", or "error" for json.JSONDecodeError
json_loads(text) ==
    LET t == NoBreaks(text)
    IN  IF IsJsonObject(t) THEN "object"
        ELSE IF t = <<"1">> THEN "scalar"
        ELSE "error"

\* The length of the first line of a text: the tokens before its first break.
RECURSIVE LineLength(_)
LineLength(text) ==
    IF text = <<>> \/ Head(text) = "\n" THEN 0 ELSE 1 + LineLength(Tail(text))

\* str.splitlines
RECURSIVE splitlines(_)
splitlines(text) ==
    IF text = <<>> THEN <<>>
    ELSE IF LineLength(text) = Len(text) THEN <<text>>
    ELSE <<SubSeq(text, 1, LineLength(text))>>
         \o splitlines(SubSeq(text, LineLength(text) + 2, Len(text)))

\* "\n".join(lines)
RECURSIVE joinlines(_)
joinlines(lines) ==
    IF lines = <<>> THEN <<>>
    ELSE IF Len(lines) = 1 THEN lines[1]
    ELSE lines[1] \o <<"\n">> \o joinlines(Tail(lines))

\* _strip_code_fences: if lines[0].strip().startswith("```"): lines = lines[1:]
DropOpeningFence(lines) ==
    IF StrStrip(lines[1]) # <<>> /\ Head(StrStrip(lines[1])) = "F" THEN Tail(lines) ELSE lines

\* _strip_code_fences: if lines and lines[-1].strip() == "```": lines = lines[:-1]
DropClosingFence(lines) ==
    IF lines # <<>> /\ StrStrip(lines[Len(lines)]) = <<"F">>
    THEN SubSeq(lines, 1, Len(lines) - 1) ELSE lines

\* GPTClient._strip_code_fences
_strip_code_fences(text) ==
    IF text # <<>> /\ text[1] = "F" /\ text[Len(text)] = "F"
    THEN StrStrip(joinlines(DropClosingFence(DropOpeningFence(splitlines(text)))))
    ELSE text

\* The scan of _extract_first_json from position idx on: the candidate it
\* returns, or None when the loop ends without one.  The scan reads
\* characters, so the brace inside a string value counts; a candidate that
\* begins or ends at one is cut inside the string and json.loads rejects it.
RECURSIVE ExtractScan(_, _, _, _)
ExtractScan(text, idx, depth, start_idx) ==
    IF idx > Len(text) THEN None
    ELSE IF text[idx] \in {"{", "o"}
    THEN ExtractScan(text, idx + 1, depth + 1, IF depth = 0 THEN idx ELSE start_idx)
    ELSE IF text[idx] \in {"}", "c"} /\ depth > 0
    THEN IF depth = 1 /\ start_idx # 0 /\ json_loads(SubSeq(text, start_idx, idx)) # "error"
         THEN SubSeq(text, start_idx, idx)
         ELSE ExtractScan(text, idx + 1, depth - 1, start_idx)
    ELSE ExtractScan(text, idx + 1, depth, start_idx)

\* re.search(r"\{.*\}", text, re.DOTALL): first "{" to the last "}" after it
RegexBraces(text) ==
    LET opens == {i \in 1..Len(text) : text[i] \in {"{", "o"}}
    IN  IF opens = {} THEN None
        ELSE LET f == CHOOSE i \in opens : \A j \in opens : i <= j
                 closes == {i \in (f + 1)..Len(text) : text[i] \in {"}", "c"}}
             IN  IF closes = {} THEN None
                 ELSE SubSeq(text, f, CHOOSE i \in closes : \A j \in closes : j <= i)

\* _extract_first_json after its scan: the candidate found, else the regex match
ExtractFallback(text, found) == IF found # None THEN found ELSE RegexBraces(text)

\* GPTClient._extract_first_json
_extract_first_json(text) == ExtractFallback(text, ExtractScan(text, 1, 0, 0))

\* GPTClient._safe_json: the exception raised ("none" when it returns), its
\* message, the kind of value returned and the value: the tokens decoded.
NoRecoverablePayload == <<"Model returned invalid JSON and no recoverable payload">>

\* _safe_json, the except block: json.loads(extracted) is not guarded, so the
\* JSONDecodeError it raises leaves _safe_json.
SafeJsonExcept(extracted) ==
    IF extracted = None
    THEN [exc |-> "RuntimeError", message |-> NoRecoverablePayload, kind |-> "none",
          value |-> None]
    ELSE IF json_loads(extracted) = "error"
    THEN [exc |-> "JSONDecodeError", message |-> <<"Expecting value">>, kind |-> "none",
          value |-> None]
    ELSE [exc |-> "none", message |-> <<>>, kind |-> json_loads(extracted),
          value |-> NoBreaks(extracted)]

\* _safe_json, the try block on the cleaned text
SafeJsonTry(cleaned) ==
    IF json_loads(cleaned) # "error"
    THEN [exc |-> "none", message |-> <<>>, kind |-> json_loads(cleaned),
          value |-> NoBreaks(cleaned)]
    ELSE SafeJsonExcept(_extract_first_json(cleaned))

_safe_json(content) == SafeJsonTry(_strip_code_fences(StrStrip(content)))

(***************************************************************************)
(* gpt_client.py: _enforce_constraints.  npc_response is the tuple of its  *)
(* sentences, the split of re.split(r"(?<=[.!?])\s+", ...).                *)
(***************************************************************************)
\* re.split(r"(?<=[.!?])\s+", text): a run of whitespace that follows one of
\* . ! ? ends a piece; `piece` is the piece being read.
RECURSIVE SplitAfterStops(_, _)
SplitAfterStops(text, piece) ==
    IF text = <<>> THEN <<piece>>
    ELSE IF IsSpace(Head(text)) /\ piece # <<>> /\ piece[Len(piece)] \in {".", "!", "?"}
    THEN <<piece>> \o SplitAfterStops(LStrip(text), <<>>)
    ELSE SplitAfterStops(Tail(text), Append(piece, Head(text)))

\* [s for s in re.split(..., npc_response.strip()) if s]
SplitSentences(npc_response) ==
    SelectSeq(SplitAfterStops(StrStrip(npc_response), <<>>), LAMBDA piece : piece # <<>>)

\* " ".join(sentences)
RECURSIVE JoinSentences(_)
JoinSentences(sentences) ==
    IF sentences = <<>> THEN <<>>
    ELSE IF Len(sentences) = 1 THEN sentences[1]
    ELSE sentences[1] \o <<" ">> \o JoinSentences(Tail(sentences))

MutUniqueBranches(branches, unique_branches, seen_titles) ==
    LET titles == {branches[i].title : i \in 1..Len(branches)}
        first(t) == CHOOSE i \in 1..Len(branches) :
                       branches[i].title = t /\ \A j \in 1..(i - 1) : branches[j].title # t
        firsts == {first(t) : t \in titles}
        kept == SelectSeq([i \in 1..Len(branches) |-> i], LAMBDA i : i \in firsts)
    IN  [i \in 1..Min(3, Len(kept)) |-> branches[kept[i]]]

RECURSIVE UniqueBranches(_, _, _)
UniqueBranches(branches, unique_branches, seen_titles) ==
    IF branches = <<>> \/ Len(unique_branches) = 3 THEN unique_branches
    ELSE LET title == StrLower(StrStrip(Head(branches).title))
         IN  IF title \in seen_titles
             THEN UniqueBranches(Tail(branches), unique_branches, seen_titles)
             ELSE UniqueBranches(Tail(branches), Append(unique_branches, Head(branches)),
                                 seen_titles \cup {title})

\* GPTClient._enforce_constraints: the exception raised, its message, and the
\* resolution as left
_enforce_constraints(resolution) ==
    LET sentences == resolution.npc_response
        truncated == IF Len(sentences) > 4
                     THEN [resolution EXCEPT !.npc_response = SubSeq(sentences, 1, 4)]
                     ELSE resolution
        unique_branches == UniqueBranches(resolution.branches, <<>>, {})
    IN  IF Len(sentences) < 3
        THEN [exc |-> "RuntimeError", schema |-> truncated,
              message |-> <<"NPC response too short; expected 3-4 sentences">>]
        ELSE IF unique_branches = <<>>
        THEN [exc |-> "RuntimeError", schema |-> truncated,
              message |-> <<"No viable branches returned by model">>]
        ELSE [exc |-> "none", message |-> <<>>,
              schema |-> [truncated EXCEPT !.branches = unique_branches]]

\* _enforce_constraints on a resolution whose npc_response is its text: the
\* response is split, and rewritten as the join of its first four sentences
\* when it has more than four.
EnforceOnText(resolution) ==
    LET sentences == SplitSentences(resolution.npc_response)
        ended == _enforce_constraints([resolution EXCEPT !.npc_response = sentences])
    IN  [ended EXCEPT !.schema.npc_response =
            IF Len(sentences) > 4 THEN JoinSentences(@) ELSE resolution.npc_response]

\* The schema built by model_validate: the decoded fields without the marks
\* that say which required fields the payload carried.
TurnSchemaOf(p) ==
    [active_npc |-> [name |-> p.active_npc.name,
                     description |-> p.active_npc.description,
                     personality |-> p.active_npc.personality,
                     resistance |-> p.active_npc.resistance,
                     relationship |-> p.active_npc.relationship],
     npc_response |-> p.npc_response,
     outcome_type |-> p.outcome_type,
     outcome_summary |-> p.outcome_summary,
     npc_resistance_change |-> p.npc_resistance_change,
     npc_relationship_change |-> p.npc_relationship_change,
     next_problem |-> p.next_problem,
     branches |-> p.branches,
     is_game_over |-> p.is_game_over,
     ending_summary |-> p.ending_summary]

\* One pass of the try block of _request_with_constraints on the content that
\* _complete returned: the exception raised ("none": the schema is returned).
AttemptOn(content, payload) ==
    LET parsed == _safe_json(content)
    IN  IF parsed.exc # "none"
        THEN [exc |-> parsed.exc, message |-> parsed.message, schema |-> None]
        ELSE IF ~TurnSchemaValid(parsed.kind, payload)
        THEN [exc |-> "ValidationError", schema |-> None,
              message |-> <<"validation error for TurnResolutionSchema">>]
        ELSE _enforce_constraints(TurnSchemaOf(payload))

\* generate_world after _complete returned: the exception raised, its message,
\* the schema returned
WorldOn(content, payload) ==
    LET parsed == _safe_json(content)
    IN  IF parsed.exc # "none"
        THEN [exc |-> parsed.exc, message |-> parsed.message, schema |-> None]
        ELSE IF ~WorldSchemaValid(parsed.kind, payload)
        THEN [exc |-> "RuntimeError", schema |-> None,
              message |-> <<"Model returned invalid world payload",
                            "validation error for WorldSetupSchema">>]
        ELSE [exc |-> "none", message |-> <<>>,
              schema |-> [opening_scene |-> payload.opening_scene,
                          initial_problem |-> payload.initial_problem,
                          npcs |-> payload.npcs]]

(***************************************************************************)
(* Bounds and inputs                                                       *)
(***************************************************************************)
\* Turns played in one run of the controller.
MaxTurns == 2

\* SpecApply: proposed deltas range over -MaxDelta..MaxDelta.
MaxDelta == 3

\* SpecApply: starting resistances range over 0..MaxResistance.
MaxResistance == 2

\* SpecTurns: turns applied to one GameState.
MaxHistory == 3

\* SpecContext: narrative_context is called with recent_limit in 0..MaxLimit.
MaxLimit == 4

\* SpecEnforce: an npc_response has at most MaxText characters.
MaxText == 9

\* SpecEnforce: a resolution carries at most MaxBranches branches.
MaxBranches == 4

\* SpecJson: objects nest at most MaxNesting deep.
MaxNesting == 2

\* SpecJson: a text that is no wrapped object has at most MaxTokens tokens.
MaxTokens == 4

\* attempts of _request_with_constraints
attempts == 3

\* range(3) of _complete
completion_tries == 3

\* delay = 1.0 of _complete, in half seconds
first_delay == 2

\* the 1.5 of time.sleep(1.5 * (attempt + 1)), in half seconds
backoff_unit == 3

Quit == <<"q", "u", "i", "t">>

Log == <<"l", "o", "g">>

Retry == <<"r", "e", "t", "r", "y">>

\* _QUIT_COMMANDS, _LOG_COMMANDS, _RETRY_COMMANDS of cli_view.py
QUIT_COMMANDS == {Quit}

LOG_COMMANDS == {Log}

RETRY_COMMANDS == {Retry}

\* What the player may type at the setting prompt.
TypedSettings == {<<>>, <<" ">>, Quit, <<"Q", "u", "i", "t">>, <<"M", "a", "r", "s">>}

\* What the player may type at a turn prompt.
TypedMessages ==
    {<<>>, Quit, <<"Q", "U", "I", "T">>, Log, <<"L", "o", "G", " ">>, Retry,
     <<"R", "e", "t", "r", "y", " ">>,
     <<"H", "i">>, <<"g", "o">>}

Branch(title) == [title |-> title, description |-> ""]

BranchesABC == <<Branch(<<"A">>), Branch(<<"a", " ">>), Branch(<<"B">>), Branch(<<"C">>),
                 Branch(<<"D">>)>>

BranchesOne == <<Branch(<<"A">>)>>

Sentences(n) == [i \in 1..n |-> "s"]

NPCPayload(name, resistance, relationship) ==
    [has_name |-> TRUE, name |-> name, description |-> "", personality |-> "",
     resistance |-> resistance, relationship |-> relationship]

TurnPayload(npc, raw, dr, dl, next_problem, branches, n, over, ending) ==
    [has_required |-> TRUE,
     active_npc |-> npc,
     npc_response |-> Sentences(n),
     outcome_type |-> raw,
     outcome_summary |-> "summary",
     npc_resistance_change |-> dr,
     npc_relationship_change |-> dl,
     next_problem |-> next_problem,
     branches |-> branches,
     is_game_over |-> over,
     ending_summary |-> ending]

RawSuccess == <<" ", "S", "U", "C", "C", "E", "S", "S", "\n">>

RawFailure == <<"f", "a", "i", "l", "u", "r", "e">>

RawPartial == <<"P", "a", "r", "t", "i", "a", "l">>

RawOutcomes == {Success, RawSuccess, Failure, RawFailure, Alternative, RawPartial, <<>>}

\* The decoded objects the endpoint may answer a turn with.
GoodTurnPayloads ==
    << TurnPayload(NPCPayload("Alex", 4, 1), RawSuccess, 2, -3, "P1", BranchesABC, 5, FALSE, None),
      TurnPayload(NPCPayload("Alex", 0, 0), RawFailure, -2, -1, "", BranchesOne, 3, FALSE, None),
      TurnPayload(NPCPayload("Iris", 1, 0), RawPartial, -3, 3, "P2", BranchesOne, 4, FALSE, <<>>),
      TurnPayload(NPCPayload("Alex", 1, 0), Success, -1, 1, "P1", BranchesOne, 3, TRUE, None),
      TurnPayload(NPCPayload("Iris", 2, 1), Failure, 1, 0, "", BranchesABC, 3, TRUE, <<"E">>),
      TurnPayload(NPCPayload("Alex", 1, 0), Alternative, 0, 0, "P2", BranchesOne, 3, TRUE, <<>>) >>

BadTurnPayloads ==
    << [TurnPayload(NPCPayload("Alex", 1, 0), Success, -1, 1, "P1", BranchesOne, 3, FALSE, None)
          EXCEPT !.has_required = FALSE],
      TurnPayload(NPCPayload("Iris", -1, 0), Success, -1, 1, "P1", BranchesOne, 3, FALSE, None),
      TurnPayload(NPCPayload("Alex", 1, 0), Success, -1, 1, "P1", BranchesOne, 2, FALSE, None),
      TurnPayload(NPCPayload("Alex", 1, 0), Success, -1, 1, "P1", <<>>, 3, FALSE, None) >>

TurnPayloads == GoodTurnPayloads \o BadTurnPayloads

WorldPayload(npcs, ok) ==
    [has_required |-> ok, opening_scene |-> "scene", initial_problem |-> "P0", npcs |-> npcs]

\* The decoded objects the endpoint may answer world generation with.
WorldPayloads ==
    << WorldPayload(<<NPCPayload("Alex", 1, 0)>>, TRUE),
      WorldPayload(<<NPCPayload("Alex", 3, -1), NPCPayload("Iris", 0, 2),
                     NPCPayload("Alex", 2, 0)>>, TRUE),
      WorldPayload(<<NPCPayload("Alex", -1, 0)>>, TRUE),
      WorldPayload(<<NPCPayload("Alex", 1, 0)>>, FALSE) >>

\* The texts the endpoint may answer with.
Contents ==
    << <<"{", "m", "}">>,
      <<"F", "j", "\n", "{", "m", "}", "\n", "F">>,
      <<"x", "{", "m", "}", "x", "\n">>,
      <<"{", "k", "{", "m", "}", "}">>,
      <<"{", "x", "}", "{", "m", "}">>,
      <<"x">>,
      <<"{", "m">>,
      <<"1">>,
      <<"x", "{", "x", "}">>,
      <<"{", "{", "m", "}", "}">> >>

(***************************************************************************)
(* The view: the calls the controller makes on it.                         *)
(***************************************************************************)
View(fn, what) == [call |-> fn, arg |-> what]

\* The top of the run loop, up to the prompt: start_turn and, when a retry
\* is stored, notify_retry_available.
LoopTop(stored) ==
    <<View("start_turn", <<>>)>> \o
    (IF stored # None THEN <<View("notify_retry_available", <<>>)>> ELSE <<>>)

NoCall == [none |-> TRUE]

\* How the last call of generate_world or plan_turn ended: returned or raised,
\* the exception, the operation, its argument, and the attempts and requests made.
Ended(how, exception) ==
    [kind |-> how, exc |-> exception, op |-> op, message |-> arg,
     attempts |-> attempt + 1, requests |-> requests + 1]

NoPlan ==
    [kind |-> "none", exc |-> "none", op |-> "none", message |-> None,
     attempts |-> 0, requests |-> 0]

Idle ==
    /\ op' = "none"
    /\ arg' = None
    /\ attempt' = 0
    /\ tries' = 0
    /\ requests' = 0
    /\ delay' = first_delay
    /\ slept' = 0

(***************************************************************************)
(* game_controller.py: GameController.run up to the setting prompt         *)
(***************************************************************************)
Init ==
    /\ pc = "setting"
    /\ state = NoState
    /\ retry_message = None
    /\ shown = <<View("welcome", <<>>)>>
    /\ op = "none"
    /\ arg = None
    /\ attempt = 0
    /\ tries = 0
    /\ requests = 0
    /\ plan = NoPlan
    /\ delay = first_delay
    /\ slept = 0
    /\ call = NoCall

\* What one completion request may come to: the call raises, or it returns a
\* text.  A text that does not decode to an object carries nothing; the texts
\* that do are paired with the first decoded object, and the first such text
\* with every decoded object.
TextReply(content) == [failed |-> FALSE, content |-> content, payload |-> None]

DecodesToObject(content) == _safe_json(StrStrip(content)).kind = "object"

PlainTexts == SelectSeq(Contents, LAMBDA c : ~DecodesToObject(c))

ObjectTexts == SelectSeq(Contents, DecodesToObject)

Bare(texts) == [i \in 1..Len(texts) |-> TextReply(texts[i])]

Carrying(texts, payloads) ==
    [i \in 1..Len(texts) |-> [TextReply(texts[i]) EXCEPT !.payload = payloads[1]]]
    \o [i \in 1..(Len(payloads) - 1) |->
           [TextReply(texts[1]) EXCEPT !.payload = payloads[i + 1]]]

Replies(payloads) ==
    <<[failed |-> TRUE, content |-> <<>>, payload |-> None]>>
    \o Bare(PlainTexts) \o Carrying(ObjectTexts, payloads)

\* client.chat.completions.create(...).choices[0].message.content.strip()
Received(reply) == StrStrip(reply.content)

\* The exceptions _request_with_constraints catches.
MutCaught == {"RuntimeError"}

Caught == {"RuntimeError", "ValidationError"}

TurnReplies == Replies(TurnPayloads)

WorldReplies == Replies(WorldPayloads)

\* A reply together with how the code that receives it ends: the exception
\* raised ("none" when it returns), its message, and the schema returned.
Ending(reply, result) ==
    [failed |-> reply.failed, content |-> reply.content, payload |-> reply.payload,
     exc |-> result.exc, message |-> result.message, schema |-> result.schema]

\* _complete after its last request raised
RequestFailed == [exc |-> "RuntimeError", message |-> <<"GPT request failed">>, schema |-> None]

\* How the try block of _request_with_constraints ends on a reply when the
\* request is the last one _complete makes: _complete raises RuntimeError, or
\* the text it returns is parsed, validated and constrained.
TurnOutcome(reply) ==
    Ending(reply, IF reply.failed THEN RequestFailed
                  ELSE AttemptOn(Received(reply), reply.payload))

\* How generate_world ends on a reply.
WorldOutcome(reply) ==
    Ending(reply, IF reply.failed THEN RequestFailed
                  ELSE WorldOn(Received(reply), reply.payload))

TurnOutcomes(replies) == <<>> \o [i \in 1..Len(replies) |-> TurnOutcome(replies[i])]

WorldOutcomes(replies) == <<>> \o [i \in 1..Len(replies) |-> WorldOutcome(replies[i])]

TurnResult == TurnOutcomes(TurnReplies)

WorldResult == WorldOutcomes(WorldReplies)

Begin(kind, a) ==
    /\ pc' = "request"
    /\ op' = kind
    /\ arg' = a
    /\ attempt' = 0
    /\ tries' = 0
    /\ requests' = 0
    /\ plan' = NoPlan
    /\ delay' = first_delay
    /\ slept' = 0

\* run: the setting prompt is answered with nothing or with quit.
SettingDeclined(typed) ==
    /\ pc = "setting"
    /\ StrStrip(typed) = <<>> \/ StrStrip(typed) \in QUIT_COMMANDS
    /\ pc' = "done"
    /\ shown' = <<View("say_goodbye", <<>>)>>
    /\ UNCHANGED <<state, retry_message, op, arg, attempt, tries, requests, plan, call, delay, slept>>

\* run: a setting is given; _setup_world calls generate_world.
SettingChosen(typed) ==
    /\ pc = "setting"
    /\ StrStrip(typed) # <<>>
    /\ StrStrip(typed) \notin QUIT_COMMANDS
    /\ Begin("world", StrStrip(typed))
    /\ shown' = <<>>
    /\ UNCHANGED <<state, retry_message, call>>

\* _complete: the request raises and another one follows after
\* time.sleep(delay); delay *= 2.
RequestRetried ==
    /\ pc = "request"
    /\ tries < completion_tries - 1
    /\ tries' = tries + 1
    /\ requests' = requests + 1
    /\ slept' = delay
    /\ delay' = delay * 2
    /\ UNCHANGED <<pc, state, retry_message, shown, op, arg, attempt, plan, call>>

\* generate_world raises: run shows the error and returns.
WorldFailed(reply) ==
    /\ pc = "request"
    /\ op = "world"
    /\ reply.failed => tries = completion_tries - 1
    /\ reply.exc # "none"
    /\ pc' = "done"
    /\ shown' = <<View("display_error", <<"Failed to initialise the game">> \o reply.message)>>
    /\ plan' = Ended("raised", reply.exc)
    /\ Idle
    /\ UNCHANGED <<state, retry_message, call>>

\* generate_world returns: _setup_world builds the GameState, run shows the opening.
WorldCreated(reply) ==
    /\ pc = "request"
    /\ op = "world"
    /\ ~reply.failed
    /\ reply.exc = "none"
    /\ state' = from_world_schema(arg, reply.schema)
    /\ pc' = "prompt"
    /\ shown' = <<View("show_opening", <<>>)>> \o LoopTop(retry_message)
    /\ plan' = Ended("returned", "none")
    /\ Idle
    /\ UNCHANGED <<retry_message, call>>

\* time.sleep(1.5 * (attempt + 1)), in half seconds
MutValidationWait(failed) == backoff_unit

ValidationWait(failed) == backoff_unit * (failed + 1)

\* _request_with_constraints: the attempt raises a caught exception and is not
\* the last; the next attempt, with its own _complete, starts after the sleep.
AttemptFailed(reply) ==
    /\ pc = "request"
    /\ op \in {"play", "retry"}
    /\ reply.failed => tries = completion_tries - 1
    /\ reply.exc \in Caught
    /\ attempt < attempts - 1
    /\ attempt' = attempt + 1
    /\ tries' = 0
    /\ requests' = requests + 1
    /\ slept' = ValidationWait(attempt)
    /\ delay' = first_delay
    /\ UNCHANGED <<pc, state, retry_message, shown, op, arg, plan, call>>

\* The exception that leaves plan_turn on this reply, and its message.
Escaping(reply) == IF reply.exc \in Caught THEN "RuntimeError" ELSE reply.exc

EscapingMessage(reply) ==
    IF reply.exc \in Caught THEN <<"Model response failed validation">> \o reply.message
    ELSE reply.message

\* plan_turn raises; run shows the error and goes back to the prompt.
MutPlanRaised(reply) ==
    /\ pc = "request"
    /\ op \in {"play", "retry"}
    /\ reply.failed => tries = completion_tries - 1
    /\ reply.exc # "none"
    /\ reply.exc \in Caught => attempt = attempts - 1
    /\ shown' = <<View("display_error", EscapingMessage(reply))>> \o LoopTop(retry_message)
    /\ pc' = "prompt"
    /\ plan' = Ended("raised", Escaping(reply))
    /\ Idle
    /\ UNCHANGED <<state, retry_message, call>>

PlanRaised(reply) ==
    /\ pc = "request"
    /\ op \in {"play", "retry"}
    /\ reply.failed => tries = completion_tries - 1
    /\ reply.exc # "none"
    /\ reply.exc \in Caught => attempt = attempts - 1
    /\ retry_message' = IF op = "play" THEN arg ELSE retry_message
    /\ shown' = <<View("display_error",
                       (IF op = "play" THEN <<"Encounter failed due to an error">>
                        ELSE <<"Retry failed">>) \o EscapingMessage(reply))>>
                \o LoopTop(retry_message')
    /\ pc' = "prompt"
    /\ plan' = Ended("raised", Escaping(reply))
    /\ Idle
    /\ UNCHANGED <<state, call>>

\* The text of display_game_over: ending_summary or "The story concludes here."
MutEndingText(resolution) == resolution.ending_summary

EndingText(resolution) ==
    IF resolution.ending_summary \in {None, <<>>} THEN <<"The story concludes here.">>
    ELSE resolution.ending_summary

\* plan_turn returns; _play_turn applies the resolution, _retry_last_turn clears
\* the stored message, run shows the turn and, at game over, the ending.
TurnApplied(reply) ==
    /\ pc = "request"
    /\ op \in {"play", "retry"}
    /\ ~reply.failed
    /\ reply.exc = "none"
    /\ state' = apply_resolution(state, reply.schema, arg)
    /\ retry_message' = IF op = "retry" THEN None ELSE retry_message
    /\ pc' = IF reply.schema.is_game_over THEN "done" ELSE "prompt"
    /\ shown' = <<View("display_turn_resolution", <<>>)>> \o
                (IF reply.schema.is_game_over
                 THEN <<View("display_game_over", EndingText(reply.schema))>>
                 ELSE LoopTop(retry_message'))
    /\ plan' = Ended("returned", "none")
    /\ Idle
    /\ UNCHANGED call

\* run: prompt_player_message reports an exit request.
PromptQuit(typed) ==
    /\ pc = "prompt"
    /\ StrLower(StrStrip(typed)) \in QUIT_COMMANDS
    /\ pc' = "done"
    /\ shown' = <<View("say_goodbye", <<>>)>>
    /\ UNCHANGED <<state, retry_message, op, arg, attempt, tries, requests, plan, call, delay, slept>>

\* run: an empty message.
PromptEmpty(typed) ==
    /\ pc = "prompt"
    /\ StrStrip(typed) = <<>>
    /\ shown' = <<View("notify_empty_message", <<>>)>> \o LoopTop(retry_message)
    /\ UNCHANGED <<pc, state, retry_message, op, arg, attempt, tries, requests, plan, call, delay, slept>>

\* run: the log command; _export_journal writes the journal.
MutPromptLog(typed) ==
    /\ pc = "prompt"
    /\ StrLower(StrStrip(typed)) \in LOG_COMMANDS
    /\ retry_message' = None
    /\ shown' = <<View("display_error", <<"Journal saved">>)>> \o LoopTop(retry_message')
    /\ UNCHANGED <<pc, state, op, arg, attempt, tries, requests, plan, call, delay, slept>>

PromptLog(typed) ==
    /\ pc = "prompt"
    /\ StrLower(StrStrip(typed)) \in LOG_COMMANDS
    /\ shown' = <<View("display_error", <<"Journal saved">>)>> \o LoopTop(retry_message)
    /\ UNCHANGED <<pc, state, retry_message, op, arg, attempt, tries, requests, plan, call, delay, slept>>

\* run: the retry command with nothing stored.
PromptRetryNone(typed) ==
    /\ pc = "prompt"
    /\ StrLower(StrStrip(typed)) \in RETRY_COMMANDS
    /\ retry_message = None
    /\ shown' = <<View("display_error", <<"No turn available to retry.">>)>>
                \o LoopTop(retry_message)
    /\ UNCHANGED <<pc, state, retry_message, op, arg, attempt, tries, requests, plan, call, delay, slept>>

\* run: the retry command; _retry_last_turn calls _play_turn with the stored message.
MutPromptRetry(typed) ==
    /\ pc = "prompt"
    /\ StrLower(StrStrip(typed)) \in RETRY_COMMANDS
    /\ retry_message # None
    /\ Len(state.turn_history) < MaxTurns
    /\ Begin("retry", StrStrip(typed))
    /\ shown' = <<>>
    /\ UNCHANGED <<state, retry_message, call>>

PromptRetry(typed) ==
    /\ pc = "prompt"
    /\ StrLower(StrStrip(typed)) \in RETRY_COMMANDS
    /\ retry_message # None
    /\ Len(state.turn_history) < MaxTurns
    /\ Begin("retry", retry_message)
    /\ shown' = <<>>
    /\ UNCHANGED <<state, retry_message, call>>

\* run: a message; the stored retry is dropped and _play_turn is called.
MutPromptMessage(typed) ==
    /\ pc = "prompt"
    /\ StrStrip(typed) # <<>>
    /\ StrLower(StrStrip(typed)) \notin QUIT_COMMANDS \cup LOG_COMMANDS \cup RETRY_COMMANDS
    /\ Len(state.turn_history) < MaxTurns
    /\ Begin("play", StrStrip(typed))
    /\ shown' = <<>>
    /\ UNCHANGED <<state, retry_message, call>>

PromptMessage(typed) ==
    /\ pc = "prompt"
    /\ StrStrip(typed) # <<>>
    /\ StrLower(StrStrip(typed)) \notin QUIT_COMMANDS \cup LOG_COMMANDS \cup RETRY_COMMANDS
    /\ Len(state.turn_history) < MaxTurns
    /\ retry_message' = None
    /\ Begin("play", StrStrip(typed))
    /\ shown' = <<>>
    /\ UNCHANGED <<state, call>>

Next ==
    \/ \E typed \in TypedSettings : SettingDeclined(typed) \/ SettingChosen(typed)
    \/ RequestRetried
    \/ \E i \in DOMAIN WorldResult : WorldFailed(WorldResult[i]) \/ WorldCreated(WorldResult[i])
    \/ \E i \in DOMAIN TurnResult :
          \/ AttemptFailed(TurnResult[i])
          \/ PlanRaised(TurnResult[i])
          \/ TurnApplied(TurnResult[i])
    \/ \E typed \in TypedMessages :
          \/ PromptQuit(typed)
          \/ PromptEmpty(typed)
          \/ PromptLog(typed)
          \/ PromptRetryNone(typed)
          \/ PromptRetry(typed)
          \/ PromptMessage(typed)

Spec == Init /\ [][Next]_vars

(***************************************************************************)
(* SpecApply: apply_resolution as a function of the GameState it is called *)
(* on and of the resolution it is given.  The initial states are the       *)
(* GameStates from_world_schema builds paired with the schema-valid        *)
(* resolutions; the one action makes the call.                             *)
(***************************************************************************)
ApplyWorlds ==
    {from_world_schema(<<"M", "a", "r", "s">>,
                       [opening_scene |-> "scene", initial_problem |-> "P0",
                        npcs |-> <<NPCPayload("Alex", r, l)>>]) :
        r \in 0..MaxResistance, l \in -1..1}

ApplyResolutions ==
    {TurnSchemaOf(TurnPayload(NPCPayload(n, r, 0), raw, dr, dl, np, BranchesOne, 3,
                              FALSE, None)) :
        n \in {"Alex", "Iris"}, r \in 0..MaxResistance, raw \in RawOutcomes,
        dr \in -MaxDelta..MaxDelta, dl \in -MaxDelta..MaxDelta, np \in {"", "P1"}}

InitApply ==
    /\ pc = "api"
    /\ state \in ApplyWorlds
    /\ call \in {[resolution |-> r, player_message |-> <<"H", "i">>,
                  before |-> NoState, done |-> FALSE] : r \in ApplyResolutions}
    /\ retry_message = None
    /\ shown = <<>>
    /\ op = "none"
    /\ arg = None
    /\ attempt = 0
    /\ tries = 0
    /\ requests = 0
    /\ plan = NoPlan
    /\ delay = first_delay
    /\ slept = 0

\* state.apply_resolution(resolution, player_message)
ApplyCall ==
    /\ pc = "api"
    /\ ~call.done
    /\ state' = apply_resolution(state, call.resolution, call.player_message)
    /\ call' = [call EXCEPT !.before = state, !.done = TRUE]
    /\ UNCHANGED <<pc, retry_message, shown, op, arg, attempt, tries, requests, plan, delay, slept>>

NextApply == ApplyCall

SpecApply == InitApply /\ [][NextApply]_vars

(***************************************************************************)
(* SpecTurns: _play_turn after _play_turn on one GameState, the model      *)
(* answering every request at once with a resolution that passes.  One     *)
(* action is plan_turn building the context it sends, the other is         *)
(* apply_resolution on the resolution received.  call.entered keeps, for   *)
(* each NPC, the NPCState with which it entered the roster.                *)
(***************************************************************************)
TurnsWorld ==
    from_world_schema(<<"M", "a", "r", "s">>,
                      [opening_scene |-> "scene", initial_problem |-> "P0",
                       npcs |-> <<NPCPayload("Alex", 1, 0), NPCPayload("Iris", 0, 2)>>])

TurnsResolutions ==
    {TurnSchemaOf(TurnPayload([npc EXCEPT !.description = "told", !.personality = "told"],
                              raw, d[1], d[2], "P1", BranchesOne, 3, FALSE, None)) :
        npc \in {NPCPayload("Alex", 4, 4), NPCPayload("Iris", 4, 4), NPCPayload("Sam", 1, -1)},
        raw \in {Success, RawFailure, RawPartial},
        d \in {<<-3, 3>>, <<2, -1>>}}

InitTurns ==
    /\ pc = "api"
    /\ state = TurnsWorld
    /\ call = [entered |-> TurnsWorld.npcs, context |-> NoCall, planned |-> FALSE]
    /\ retry_message = None
    /\ shown = <<>>
    /\ op = "none"
    /\ arg = None
    /\ attempt = 0
    /\ tries = 0
    /\ requests = 0
    /\ plan = NoPlan
    /\ delay = first_delay
    /\ slept = 0

\* plan_turn: the context put into the request.
PlanContext ==
    /\ pc = "api"
    /\ ~call.planned
    /\ call' = [call EXCEPT
                   !.planned = TRUE,
                   !.context = [last_active_npc |-> consecutive_npc_streak(state.turn_history)[1],
                                npc_streak |-> consecutive_npc_streak(state.turn_history)[2]]]
    /\ UNCHANGED <<pc, state, retry_message, shown, op, arg, attempt, tries, requests, plan,
                   delay, slept>>

\* _play_turn: plan_turn returns the resolution and apply_resolution applies it.
ApplyTurn(resolution) ==
    /\ pc = "api"
    /\ call.planned
    /\ Len(state.turn_history) < MaxHistory
    /\ state' = apply_resolution(state, resolution, <<"H", "i">>)
    /\ call' = [entered |-> [n \in DOMAIN state'.npcs |->
                                IF n \in DOMAIN call.entered THEN call.entered[n]
                                ELSE NPCStateOf(resolution.active_npc)],
                context |-> NoCall, planned |-> FALSE]
    /\ UNCHANGED <<pc, retry_message, shown, op, arg, attempt, tries, requests, plan,
                   delay, slept>>

NextTurns == PlanContext \/ \E resolution \in TurnsResolutions : ApplyTurn(resolution)

SpecTurns == InitTurns /\ [][NextTurns]_vars

(***************************************************************************)
(* SpecContext: narrative_context called on the turn_history that turns    *)
(* applied to one GameState leave, with every recent_limit from 0 to       *)
(* MaxLimit; plan_turn calls it with 3.  call holds the last call's        *)
(* recent_limit and what it returned.                                      *)
(***************************************************************************)
ContextResolutions == {r \in TurnsResolutions : r.npc_resistance_change = 2}

ContextUnset == [made |-> FALSE, recent_limit |-> 0, summary |-> <<>>, recent |-> <<>>]

InitContext ==
    /\ pc = "api"
    /\ state = TurnsWorld
    /\ call = ContextUnset
    /\ retry_message = None
    /\ shown = <<>>
    /\ op = "none"
    /\ arg = None
    /\ attempt = 0
    /\ tries = 0
    /\ requests = 0
    /\ plan = NoPlan
    /\ delay = first_delay
    /\ slept = 0

\* state.narrative_context(recent_limit=recent_limit)
NarrativeCall(recent_limit) ==
    /\ pc = "api"
    /\ call' = [made |-> TRUE, recent_limit |-> recent_limit,
                summary |-> narrative_context(state.turn_history, recent_limit).summary,
                recent |-> narrative_context(state.turn_history, recent_limit).recent]
    /\ UNCHANGED <<pc, state, retry_message, shown, op, arg, attempt, tries, requests, plan,
                   delay, slept>>

\* _play_turn: apply_resolution appends the next record.
ContextTurn(resolution) ==
    /\ pc = "api"
    /\ Len(state.turn_history) < MaxHistory
    /\ state' = apply_resolution(state, resolution, <<"H", "i">>)
    /\ call' = ContextUnset
    /\ UNCHANGED <<pc, retry_message, shown, op, arg, attempt, tries, requests, plan,
                   delay, slept>>

NextContext ==
    \/ \E recent_limit \in 0..MaxLimit : NarrativeCall(recent_limit)
    \/ \E resolution \in ContextResolutions : ContextTurn(resolution)

SpecContext == InitContext /\ [][NextContext]_vars

(***************************************************************************)
(* SpecEnforce: _enforce_constraints as a function of the resolution.  The *)
(* initial states pair every npc_response text of "w" (a letter), "." and  *)
(* " " with one branch list, and three texts with every branch list; the   *)
(* one action makes the call.                                              *)
(***************************************************************************)
EnforceTitles ==
    {Branch(<<"A">>), Branch(<<"a", " ">>), Branch(<<"B">>), Branch(<<"C">>), Branch(<<"D">>)}

EnforceTexts ==
    {<<"w", ".", " ", ".", " ", "w", ".", " ", ".", " ", "w", "w">>,
     <<"w", ".", " ", "w", ".", " ", "w">>,
     <<"w", ".", " ", "w">>}

EnforceUnset == [resolution |-> NoCall, result |-> NoCall, done |-> FALSE]

InitEnforce ==
    /\ pc = "api"
    /\ state = NoState
    /\ \/ \E k \in 0..MaxText : \E t \in [1..k -> {"w", ".", " "}] :
             call = [EnforceUnset EXCEPT
                        !.resolution = [npc_response |-> t, branches |-> BranchesABC]]
       \/ \E k \in 0..MaxBranches : \E b \in [1..k -> EnforceTitles] : \E t \in EnforceTexts :
             call = [EnforceUnset EXCEPT !.resolution = [npc_response |-> t, branches |-> b]]
    /\ retry_message = None
    /\ shown = <<>>
    /\ op = "none"
    /\ arg = None
    /\ attempt = 0
    /\ tries = 0
    /\ requests = 0
    /\ plan = NoPlan
    /\ delay = first_delay
    /\ slept = 0

\* GPTClient._enforce_constraints(resolution)
EnforceCall ==
    /\ pc = "api"
    /\ ~call.done
    /\ call' = [call EXCEPT !.result = EnforceOnText(call.resolution), !.done = TRUE]
    /\ UNCHANGED <<pc, state, retry_message, shown, op, arg, attempt, tries, requests, plan, delay, slept>>

NextEnforce == EnforceCall

SpecEnforce == InitEnforce /\ [][NextEnforce]_vars

(***************************************************************************)
(* SpecJson: _safe_json and _strip_code_fences as functions of the text.   *)
(* The initial states hold a JSON object text, bare, inside a code fence   *)
(* or between brace-free prose, or any short text; the one action makes    *)
(* the two calls.                                                          *)
(***************************************************************************)
\* Leading members whose value is a string that holds a brace.
StringMembers == {<<>>, <<"c">>, <<"o">>, <<"c", "o">>, <<"o", "c">>}

\* The texts of the JSON objects nested at most `depth` deep.
RECURSIVE JsonObjects(_)
JsonObjects(depth) ==
    IF depth = 0 THEN {<<"{", "}">>, <<"{", "m", "}">>}
    ELSE JsonObjects(depth - 1)
         \cup {<<"{">> \o pre \o <<"m", "}">> : pre \in StringMembers}
         \cup {<<"{">> \o pre \o <<"k">> \o inner \o <<"}">> :
                  pre \in StringMembers, inner \in JsonObjects(depth - 1)}

\* An object text written over several lines.
Spread(object) ==
    <<"{", "\n">> \o SubSeq(object, 2, Len(object) - 1) \o <<"\n", "}">>

JsonTexts == JsonObjects(MaxNesting) \cup {Spread(object) : object \in JsonObjects(MaxNesting)}

\* The ways a reply wraps the object text.
Wrapped(object) ==
    [bare |-> object,
     fence |-> <<"F", "\n">> \o object \o <<"\n", "F">>,
     tagged |-> <<"F", "j", "\n">> \o object \o <<"\n", "F", "\n">>,
     prose |-> <<"x">> \o object \o <<"x">>,
     lines |-> <<"x", "\n">> \o object \o <<"\n", "x">>]

JsonUnset ==
    [object |-> None, wrap |-> "none", content |-> <<>>, result |-> NoCall,
     stripped |-> None, done |-> FALSE]

InitJson ==
    /\ pc = "api"
    /\ state = NoState
    /\ \/ \E object \in JsonTexts : \E wrap \in DOMAIN Wrapped(object) :
             call = [JsonUnset EXCEPT !.object = object, !.wrap = wrap,
                                      !.content = Wrapped(object)[wrap]]
       \/ \E k \in 0..MaxTokens : \E text \in [1..k -> {"F", "j", "x", "\n", "{", "m", "}"}] :
             call = [JsonUnset EXCEPT !.content = text]
    /\ retry_message = None
    /\ shown = <<>>
    /\ op = "none"
    /\ arg = None
    /\ attempt = 0
    /\ tries = 0
    /\ requests = 0
    /\ plan = NoPlan
    /\ delay = first_delay
    /\ slept = 0

\* GPTClient._safe_json(content) and GPTClient._strip_code_fences(content)
SafeJsonCall ==
    /\ pc = "api"
    /\ ~call.done
    /\ call' = [call EXCEPT !.result = _safe_json(call.content),
                            !.stripped = _strip_code_fences(call.content),
                            !.done = TRUE]
    /\ UNCHANGED <<pc, state, retry_message, shown, op, arg, attempt, tries, requests, plan, delay, slept>>

NextJson == SafeJsonCall

SpecJson == InitJson /\ [][NextJson]_vars

(***************************************************************************)
(* Properties of the NPC counters and of the recorded outcome              *)
(***************************************************************************)
HasState == "npcs" \in DOMAIN state

History == IF HasState THEN state.turn_history ELSE <<>>

\* C1: from world setup on, through every turn applied, every NPC of the
\* roster has resistance >= 0, the NPCs a resolution added mid-game included.
C1_ResistanceNonNegative ==
    HasState => \A n \in DOMAIN state.npcs : state.npcs[n].resistance >= 0

\* C1 happens: the first turn names Iris, who enters the roster with the
\* resistance 1 of her payload, and the shift the record keeps, -1, is what
\* the clamp at zero left of the reduction by 2.
C1_Witness ==
    /\ Len(History) = 1
    /\ History[1].npc_name = "Iris"
    /\ History[1].outcome_type = Alternative
    /\ History[1].resistance_shift = -1
    /\ state.npcs["Iris"].resistance = 0

\* Under SpecApply: the record the call appended, the active NPC's counters
\* when the call began (those of its payload when the call added it to the
\* roster) and after it, and the deltas the resolution proposes.
Recorded == state.turn_history[Len(state.turn_history)]

ActiveName == call.resolution.active_npc.name

Before ==
    IF ActiveName \in DOMAIN call.before.npcs THEN call.before.npcs[ActiveName]
    ELSE call.resolution.active_npc

After == state.npcs[ActiveName]

ProposedResistance == call.resolution.npc_resistance_change

ProposedRelationship == call.resolution.npc_relationship_change

OutcomeIs(outcome) ==
    call.done /\ normalised_outcome(call.resolution.outcome_type) = outcome

CountersFollowRecord ==
    /\ After.resistance = Before.resistance + Recorded.resistance_shift
    /\ After.relationship = Before.relationship + Recorded.relationship_shift

\* C2, as stated: on Success the recorded resistance_shift is
\* min(npc_resistance_change, -1) and the relationship_shift is
\* max(npc_relationship_change, 1), so they are <= -1 and >= 1, and the
\* counters change by exactly the recorded shifts.
C2_SuccessShiftsAsNormalized ==
    OutcomeIs(Success) =>
        /\ Recorded.resistance_shift = Min(ProposedResistance, -1)
        /\ Recorded.relationship_shift = Max(ProposedRelationship, 1)
        /\ Recorded.resistance_shift <= -1
        /\ Recorded.relationship_shift >= 1
        /\ CountersFollowRecord

\* C2, amended: on Success the recorded resistance_shift is the change that
\* was applied, min(npc_resistance_change, -1) cut off where resistance
\* reaches 0: it is <= 0, and <= -1 when the resistance before was >= 1.  The
\* relationship_shift is max(npc_relationship_change, 1) >= 1, and the counters
\* change by exactly the recorded shifts.
C2_SuccessShiftsAsApplied ==
    OutcomeIs(Success) =>
        /\ Recorded.resistance_shift = Max(Min(ProposedResistance, -1), -Before.resistance)
        /\ Recorded.resistance_shift <= 0
        /\ Before.resistance >= 1 => Recorded.resistance_shift <= -1
        /\ Recorded.relationship_shift = Max(ProposedRelationship, 1)
        /\ Recorded.relationship_shift >= 1
        /\ CountersFollowRecord

\* C2 happens: a Success that proposes to raise resistance and lower the
\* relationship, on an NPC whose resistance is already 0.
C2_Witness ==
    /\ OutcomeIs(Success)
    /\ ProposedResistance > 0
    /\ ProposedRelationship < -1
    /\ Before.resistance = 0
    /\ Recorded.resistance_shift = 0
    /\ Recorded.relationship_shift = 1
    /\ After.relationship = Before.relationship + 1

\* C3: on Failure, whatever the proposed deltas, resistance does not go down
\* and the relationship does not go up, and the recorded shifts are
\* max(npc_resistance_change, 0) and min(npc_relationship_change, 0).
C3_FailureNeverImproves ==
    OutcomeIs(Failure) =>
        /\ After.resistance >= Before.resistance
        /\ After.relationship <= Before.relationship
        /\ Recorded.resistance_shift = Max(ProposedResistance, 0)
        /\ Recorded.relationship_shift = Min(ProposedRelationship, 0)

\* C3 happens: a Failure that proposes an improvement of both counters of an
\* NPC the call adds to the roster leaves both where they were.
C3_Witness ==
    /\ OutcomeIs(Failure)
    /\ ActiveName \notin DOMAIN call.before.npcs
    /\ ProposedResistance < 0
    /\ ProposedRelationship > 0
    /\ After.resistance = Before.resistance
    /\ After.relationship = Before.relationship
    /\ Recorded.resistance_shift = 0
    /\ Recorded.relationship_shift = 0

\* C4: the recorded outcome_type is one of Success, Failure, Alternative; an
\* outcome_type that, trimmed and lower-cased, is none of success, failure,
\* alternative is recorded as Alternative; and on a turn recorded as
\* Alternative both shifts, as recorded and as applied, lie in [-2, 2].
C4_OutcomeNormalised ==
    call.done =>
        /\ Recorded.outcome_type \in {Success, Failure, Alternative}
        /\ StrLower(StrStrip(call.resolution.outcome_type))
               \notin {StrLower(Success), StrLower(Failure), StrLower(Alternative)}
           => Recorded.outcome_type = Alternative
        /\ Recorded.outcome_type = Alternative =>
               /\ Recorded.resistance_shift \in -2..2
               /\ Recorded.relationship_shift \in -2..2
               /\ After.resistance - Before.resistance \in -2..2
               /\ After.relationship - Before.relationship \in -2..2

\* C4 happens: the outcome_type "Partial" is recorded as Alternative and the
\* proposed relationship change, above 2, is applied as 2.
C4_Witness ==
    /\ call.done
    /\ call.resolution.outcome_type = RawPartial
    /\ ProposedRelationship > 2
    /\ ProposedResistance < -2
    /\ Before.resistance >= 2
    /\ Recorded.outcome_type = Alternative
    /\ Recorded.relationship_shift = 2
    /\ Recorded.resistance_shift = -2

\* C11: after apply_resolution the current_problem is the resolution's
\* next_problem when that is not empty and the problem of before the call when
\* it is empty, and the dilemma of the appended record is the problem that was
\* current before the call.
C11_ProblemAdvances ==
    call.done =>
        /\ state.current_problem =
               IF call.resolution.next_problem # "" THEN call.resolution.next_problem
               ELSE call.before.current_problem
        /\ Len(state.turn_history) = Len(call.before.turn_history) + 1
        /\ Recorded.dilemma = call.before.current_problem

\* C11 happens: a resolution with next_problem "P1" is applied while the
\* problem is "P0"; the record keeps "P0" and the state moves to "P1".
C11_Witness ==
    /\ call.done
    /\ call.before.current_problem = "P0"
    /\ call.resolution.next_problem = "P1"
    /\ Recorded.dilemma = "P0"
    /\ state.current_problem = "P1"

(***************************************************************************)
(* Properties of the client's retries and of the run loop                  *)
(***************************************************************************)
InTurn == pc = "request" /\ op \in {"play", "retry"}

InWorld == pc = "request" /\ op = "world"

\* The step that receives a reply in plan_turn, however it goes on.
Receives(reply) == AttemptFailed(reply) \/ PlanRaised(reply) \/ TurnApplied(reply)

\* The replies whose text decodes to a value that fails schema validation.
Decodes(reply) == ~reply.failed /\ _safe_json(Received(reply)).exc = "none"

TurnRejected ==
    {i \in DOMAIN TurnResult :
        /\ Decodes(TurnResult[i])
        /\ ~TurnSchemaValid(_safe_json(Received(TurnResult[i])).kind, TurnResult[i].payload)}

WorldRejected ==
    {i \in DOMAIN WorldResult :
        /\ Decodes(WorldResult[i])
        /\ ~WorldSchemaValid(_safe_json(Received(WorldResult[i])).kind,
                             WorldResult[i].payload)}

\* The replies whose text cannot be recovered into a JSON value: no braces,
\* or a brace-delimited span that is not valid JSON.
Unrecoverable ==
    {i \in DOMAIN TurnResult : ~TurnResult[i].failed /\ ~Decodes(TurnResult[i])}

Passing == {i \in DOMAIN TurnResult : TurnResult[i].exc = "none"}

\* The replies that stand for a request that raised.
TurnUnanswered == {i \in DOMAIN TurnResult : TurnResult[i].failed}

WorldUnanswered == {i \in DOMAIN WorldResult : WorldResult[i].failed}

\* C5: plan_turn makes at most 3 attempts of at most 3 requests each, at most
\* 9 requests in all; each step that does not end it makes one more request,
\* so it terminates; the first reply that parses, validates and passes the
\* constraints makes it return with no further request; and when the third
\* attempt fails it raises RuntimeError.
C5_PlanTurnBounded ==
    [][InTurn =>
          /\ attempt + 1 <= 3
          /\ tries + 1 <= 3
          /\ requests + 1 <= 9
          /\ pc' = "request" => requests' = requests + 1 /\ plan' = NoPlan
          /\ \A i \in Passing :
                Receives(TurnResult[i]) =>
                    /\ plan'.kind = "returned"
                    /\ plan'.requests = requests + 1
                    /\ pc' # "request"
          /\ plan'.kind = "raised" /\ attempt + 1 = 3 => plan'.exc = "RuntimeError"]_vars

\* C6, as stated: in generate_world as in plan_turn, the operation fails on a
\* failed request only after the third request, and on a payload that fails
\* schema validation only after the third attempt.
C6_RetriedOnRejection ==
    [][pc = "request" =>
          /\ \A i \in WorldUnanswered : WorldFailed(WorldResult[i]) => tries + 1 = 3
          /\ \A i \in WorldRejected : WorldFailed(WorldResult[i]) => attempt + 1 = 3
          /\ \A i \in TurnUnanswered : PlanRaised(TurnResult[i]) => tries + 1 = 3
          /\ \A i \in TurnRejected : PlanRaised(TurnResult[i]) => attempt + 1 = 3]_vars

\* C6, amended: both operations fail on a failed request only after the third
\* request, and never make more than 3 requests in an attempt.  plan_turn
\* fails on a payload that fails schema validation only after the third
\* attempt.  generate_world makes one attempt: the first payload that fails
\* schema validation makes it raise RuntimeError, with no further request.
C6_RetriedWhereCoded ==
    [][pc = "request" =>
          /\ tries + 1 <= 3
          /\ attempt + 1 <= 3
          /\ InWorld => attempt = 0 /\ (pc' = "request" => attempt' = 0)
          /\ \A i \in WorldUnanswered : WorldFailed(WorldResult[i]) => tries + 1 = 3
          /\ \A i \in WorldRejected :
                /\ ~WorldCreated(WorldResult[i])
                /\ WorldFailed(WorldResult[i]) =>
                       /\ plan' = Ended("raised", "RuntimeError")
                       /\ plan'.attempts = 1
                       /\ pc' = "done"
          /\ \A i \in TurnUnanswered :
                PlanRaised(TurnResult[i]) => tries + 1 = 3 /\ attempt + 1 = 3
          /\ \A i \in TurnRejected :
                /\ ~TurnApplied(TurnResult[i])
                /\ PlanRaised(TurnResult[i]) => attempt + 1 = 3]_vars

\* C6 happens: generate_world has raised after its first request, the payload
\* of the reply having failed schema validation; run has shown the error.
C6_Witness ==
    /\ pc = "done"
    /\ plan.kind = "raised"
    /\ plan.op = "world"
    /\ plan.exc = "RuntimeError"
    /\ plan.attempts = 1
    /\ plan.requests = 1
    /\ shown = <<View("display_error",
                      <<"Failed to initialise the game",
                        "Model returned invalid world payload",
                        "validation error for WorldSetupSchema">>)>>

\* C7: in plan_turn a reply whose text cannot be recovered into JSON is a
\* failed attempt: on attempt 1 or 2 another attempt follows, on attempt 3
\* plan_turn raises RuntimeError; and no exception of another type leaves
\* plan_turn.
C7_UnrecoverableTextRetried ==
    [][InTurn =>
          /\ \A i \in Unrecoverable :
                Receives(TurnResult[i]) =>
                    IF attempt + 1 < 3
                    THEN pc' = "request" /\ attempt' = attempt + 1 /\ plan' = NoPlan
                    ELSE plan'.kind = "raised" /\ plan'.exc = "RuntimeError"
          /\ plan'.kind = "raised" => plan'.exc = "RuntimeError"]_vars

\* C8: from the prompt to the moment plan_turn raises, the GameState does not
\* change; when it raises, the error is shown, the loop is back at the prompt
\* with the turn started again, the message that failed is the stored
\* retry_message, and the retry is announced.
C8_FailedTurnKeepsState ==
    [][/\ pc = "prompt" /\ pc' = "request" => state' = state
       /\ InTurn /\ plan'.kind # "returned" => state' = state
       /\ InTurn /\ plan'.kind = "raised" =>
             /\ pc' = "prompt"
             /\ shown'[1].call = "display_error"
             /\ shown'[2].call = "start_turn"
             /\ arg # None
             /\ retry_message' = arg
             /\ shown'[Len(shown')].call = "notify_retry_available"]_vars

\* C8 happens: after one recorded turn a played message has failed; the state
\* still holds that one turn and the message is stored.
C8_Witness ==
    /\ pc = "prompt"
    /\ plan.kind = "raised"
    /\ plan.op = "play"
    /\ Len(History) = 1
    /\ state.total_successes = 1
    /\ retry_message = plan.message
    /\ retry_message = <<"g", "o">>
    /\ shown[1].call = "display_error"

\* C9: the retry command passes the stored retry_message to plan_turn and
\* keeps it stored meanwhile; the record of a retry that succeeds carries that
\* message as player_message, and retry_message is None afterwards; with
\* nothing stored no retry starts.
C9_RetryReplaysStored ==
    [][/\ pc = "prompt" /\ op' = "retry" =>
             retry_message # None /\ arg' = retry_message /\ retry_message' = retry_message
       /\ pc = "request" /\ op = "retry" /\ pc' = "request" =>
             arg' = arg /\ retry_message' = retry_message
       /\ pc = "request" /\ op = "retry" /\ plan'.kind = "returned" =>
             /\ arg = retry_message
             /\ Len(History') = Len(History) + 1
             /\ History'[Len(History')].player_message = retry_message
             /\ retry_message' = None]_vars

\* C9 happens: a retry has succeeded; the last record carries the replayed
\* message and nothing is stored any more.
C9_Witness ==
    /\ plan.kind = "returned"
    /\ plan.op = "retry"
    /\ plan.message = <<"H", "i">>
    /\ Len(History) = 2
    /\ History[2].player_message = <<"H", "i">>
    /\ History[1].player_message = <<"g", "o">>
    /\ retry_message = None

\* C10: a step either leaves turn_history as it is or, being the step on
\* which plan_turn returns and apply_resolution runs, appends exactly one
\* record to it; and the i-th record has turn_number i.
C10_HistoryAppendOnly ==
    [][/\ \/ History' = History
          \/ /\ InTurn /\ plan'.kind = "returned"
             /\ Len(History') = Len(History) + 1
             /\ SubSeq(History', 1, Len(History)) = History
       /\ InTurn /\ plan'.kind = "returned" => Len(History') = Len(History) + 1
       /\ \A i \in 1..Len(History') : History'[i].turn_number = i]_vars

\* C10 happens: two turns on different NPCs are recorded, numbered 1 and 2.
C10_Witness ==
    /\ Len(History) = 2
    /\ History[1].turn_number = 1
    /\ History[2].turn_number = 2
    /\ History[1].npc_name # History[2].npc_name
    /\ History[1].player_message # History[2].player_message

(***************************************************************************)
(* Properties of the GameState's bookkeeping                               *)
(***************************************************************************)
\* The number of records of a history with the given outcome_type.
Count(history, outcome) ==
    Cardinality({i \in 1..Len(history) : history[i].outcome_type = outcome})

\* C12: in every state total_successes is the number of records whose
\* outcome_type is "Success" and total_failures the number whose outcome_type
\* is "Failure"; Alternative turns count in neither, so the two together are
\* at most the length of the history.
C12_TotalsCountOutcomes ==
    HasState =>
        /\ state.total_successes = Count(History, Success)
        /\ state.total_failures = Count(History, Failure)
        /\ state.total_successes + state.total_failures + Count(History, Alternative)
               = Len(History)
        /\ state.total_successes + state.total_failures <= Len(History)

\* C12 happens: a Success and then an Alternative turn are recorded; one
\* success is counted and no failure.
C12_Witness ==
    /\ Len(History) = 2
    /\ History[1].outcome_type = Success
    /\ History[2].outcome_type = Alternative
    /\ state.total_successes = 1
    /\ state.total_failures = 0

(***************************************************************************)
(* Properties of _enforce_constraints                                      *)
(***************************************************************************)
TitleKey(branch) == StrLower(StrStrip(branch.title))

\* The branches of a list whose title, trimmed and lower-cased, no earlier
\* branch of the list has.
FirstOfTitle(branches) ==
    LET firsts == {i \in 1..Len(branches) :
                      \A j \in 1..(i - 1) : TitleKey(branches[j]) # TitleKey(branches[i])}
        order == SelectSeq([i \in 1..Len(branches) |-> i], LAMBDA i : i \in firsts)
    IN  [i \in 1..Len(order) |-> branches[order[i]]]

GivenSentences == SplitSentences(call.resolution.npc_response)

\* C13: _enforce_constraints raises RuntimeError exactly when the response
\* has fewer than 3 sentences or no branch is given.  When it returns, the
\* npc_response it leaves has 3 or 4 sentences, the first four of the given
\* response in order, and the branches it leaves are the first 1 to 3 of the
\* given branches that differ in title, titles compared trimmed and without
\* regard to case.
C13_ConstraintsEnforced ==
    call.done =>
        /\ call.result.exc \in {"none", "RuntimeError"}
        /\ call.result.exc = "RuntimeError"
               <=> (Len(GivenSentences) < 3 \/ call.resolution.branches = <<>>)
        /\ call.result.exc = "none" =>
               LET left == SplitSentences(call.result.schema.npc_response)
                   kept == call.result.schema.branches
                   firsts == FirstOfTitle(call.resolution.branches)
               IN  /\ Len(left) \in {3, 4}
                   /\ left = SubSeq(GivenSentences, 1, Min(4, Len(GivenSentences)))
                   /\ Len(kept) \in 1..3
                   /\ \A i, j \in 1..Len(kept) : i # j => TitleKey(kept[i]) # TitleKey(kept[j])
                   /\ kept = SubSeq(firsts, 1, Min(3, Len(firsts)))

\* C13 happens: a response of five sentences comes with the branches A, "a ",
\* B, C, D; four sentences and the branches A, B, C are left.
C13_Witness ==
    /\ call.done
    /\ call.result.exc = "none"
    /\ Len(GivenSentences) = 5
    /\ call.resolution.branches = BranchesABC
    /\ Len(SplitSentences(call.result.schema.npc_response)) = 4
    /\ call.result.schema.branches = <<Branch(<<"A">>), Branch(<<"B">>), Branch(<<"C">>)>>

(***************************************************************************)
(* Properties of the JSON recovery                                         *)
(***************************************************************************)
StartsAndEndsWithFence(text) == text # <<>> /\ text[1] = "F" /\ text[Len(text)] = "F"

\* C14: for every JSON object text, _safe_json returns the object of that
\* text when it is given the text itself, the text inside a code fence, with
\* or without a language tag, and the text between brace-free prose; and
\* _strip_code_fences returns a text that does not both start and end with a
\* fence as it is.
C14_WrappingInsensitive ==
    call.done =>
        /\ call.wrap # "none" =>
               /\ call.result.exc = "none"
               /\ call.result.kind = "object"
               /\ call.result.value = NoBreaks(call.object)
        /\ ~StartsAndEndsWithFence(call.content) => call.stripped = call.content

\* C14 without the objects that hold a brace inside a string value.
C14_WithoutBracesInStrings ==
    (\A i \in 1..Len(call.content) : call.content[i] \notin {"c", "o"})
        => C14_WrappingInsensitive

(***************************************************************************)
(* Properties of the waits between retries                                 *)
(***************************************************************************)
\* C15: waits in half seconds.  A step sleeps only when it is a failed
\* request or a failed attempt that another one follows, and every such step
\* sleeps; the step on which the operation returns or raises does not.  In
\* _complete the first wait is 1 s and each further one twice the one before;
\* between the attempts of _request_with_constraints the first wait is 1.5 s
\* and the second twice that, 3 s.
C15_BackoffDoubles ==
    [][/\ slept' # 0 =>
             /\ pc = "request" /\ pc' = "request"
             /\ tries' = tries + 1 \/ attempt' = attempt + 1
       /\ pc = "request" /\ pc' = "request" => slept' > 0
       /\ pc = "request" /\ pc' # "request" => slept' = 0
       /\ pc = "request" /\ tries' = tries + 1 =>
             slept' = IF tries = 0 THEN 2 ELSE 2 * slept
       /\ pc = "request" /\ attempt' = attempt + 1 =>
             /\ slept' = 3 * 2 ^ attempt
             /\ slept' \in {3, 6}]_vars

\* C15 happens: the second attempt of a turn has failed; the wait before the
\* third was 3 s, and its first request is about to be made.
C15_Witness ==
    /\ pc = "request"
    /\ op = "play"
    /\ attempt = 2
    /\ tries = 0
    /\ slept = 6
    /\ delay = 2

(***************************************************************************)
(* Properties of the turn history                                          *)
(***************************************************************************)
\* C16: on an empty history consecutive_npc_streak gives (None, 0) and
\* last_active_npc gives None.  Otherwise the streak is (n, k) with n the NPC
\* of the last record and k >= 1 the length of the longest run of records of
\* n that ends the history, and last_active_npc gives n.
C16_StreakIsLongestSuffix ==
    call.planned =>
        LET h == state.turn_history
            n == call.context.last_active_npc
            k == call.context.npc_streak
        IN  IF h = <<>>
            THEN n = None /\ k = 0 /\ last_active_npc(h) = None
            ELSE /\ n = h[Len(h)].npc_name
                 /\ k \in 1..Len(h)
                 /\ \A i \in (Len(h) - k + 1)..Len(h) : h[i].npc_name = n
                 /\ k < Len(h) => h[Len(h) - k].npc_name # n
                 /\ last_active_npc(h) = n

\* C16 happens: after turns with Iris, Alex and Iris the streak is (Iris, 1).
C16_Witness ==
    /\ call.planned
    /\ Len(state.turn_history) = 3
    /\ state.turn_history[1].npc_name = "Iris"
    /\ state.turn_history[2].npc_name = "Alex"
    /\ state.turn_history[3].npc_name = "Iris"
    /\ call.context = [last_active_npc |-> "Iris", npc_streak |-> 1]

\* The resistance_shift and the relationship_shift of the records of a
\* history that name an NPC, summed.
RECURSIVE ShiftsOf(_, _)
ShiftsOf(history, name) ==
    IF history = <<>> THEN <<0, 0>>
    ELSE LET rest == ShiftsOf(SubSeq(history, 1, Len(history) - 1), name)
             last == history[Len(history)]
         IN  IF last.npc_name = name
             THEN <<rest[1] + last.resistance_shift, rest[2] + last.relationship_shift>>
             ELSE rest

\* C19: in every state, for every NPC of the roster, the resistance is the
\* resistance with which the NPC entered the roster plus the resistance_shift
\* of every record that names it, and the relationship likewise.
C19_ShiftsAccountForCounters ==
    \A n \in DOMAIN state.npcs :
        /\ n \in DOMAIN call.entered
        /\ state.npcs[n].resistance
               = call.entered[n].resistance + ShiftsOf(state.turn_history, n)[1]
        /\ state.npcs[n].relationship
               = call.entered[n].relationship + ShiftsOf(state.turn_history, n)[2]

\* C19 happens: Alex, who entered with resistance 1, was persuaded with a
\* proposed change of -3: the record keeps -1 and the resistance is 0; Sam
\* entered during the game and has a turn recorded as well.
C19_Witness ==
    /\ Len(state.turn_history) = 3
    /\ state.turn_history[1].npc_name = "Alex"
    /\ state.turn_history[1].outcome_type = Success
    /\ state.turn_history[1].resistance_shift = -1
    /\ state.turn_history[1].relationship_shift = 3
    /\ state.npcs["Alex"].resistance = 0
    /\ state.turn_history[2].npc_name = "Sam"
    /\ state.turn_history[3].npc_name = "Sam"
    /\ state.npcs["Sam"].relationship = call.entered["Sam"].relationship - 2

(***************************************************************************)
(* Properties of the run loop's inputs                                     *)
(***************************************************************************)
\* One pass of run on what was typed: at the setting prompt, at a turn prompt.
TypedAtSetting(typed) == SettingDeclined(typed) \/ SettingChosen(typed)

TypedAtPrompt(typed) ==
    \/ PromptQuit(typed)
    \/ PromptEmpty(typed)
    \/ PromptLog(typed)
    \/ PromptRetryNone(typed)
    \/ PromptRetry(typed)
    \/ PromptMessage(typed)

\* quit, in any letter case
IsQuit(typed) == StrLower(StrStrip(typed)) = Quit

QuitSettings == {typed \in TypedSettings : IsQuit(typed)}

QuitMessages == {typed \in TypedMessages : IsQuit(typed)}

QuitEnds ==
    /\ pc' = "done"
    /\ shown' = <<View("say_goodbye", <<>>)>>
    /\ state' = state
    /\ pc' # "request" /\ op' = "none" /\ requests' = 0

\* C17: quit typed in any letter case, at the setting prompt or at a turn
\* prompt, ends the session with the goodbye message, with no model call and
\* no change of the game state; and once the session has ended nothing
\* happens any more.
C17_QuitAnyTime ==
    [][/\ pc = "setting" => \A typed \in QuitSettings : TypedAtSetting(typed) => QuitEnds
       /\ pc = "prompt" => \A typed \in QuitMessages : TypedAtPrompt(typed) => QuitEnds
       /\ pc # "done"]_vars

\* C17 at the turn prompts only.
C17_QuitAtTurnPrompt ==
    [][/\ pc = "prompt" => \A typed \in QuitMessages : TypedAtPrompt(typed) => QuitEnds
       /\ pc # "done"]_vars

\* The resolutions plan_turn may return, and the reply that carries one.
Resolutions == {TurnResult[i].schema : i \in Passing}

Answer(resolution) == [failed |-> FALSE, exc |-> "none", schema |-> resolution]

\* C18: the step that applies a resolution with is_game_over shows the
\* turn's resolution and then the ending, once: the ending_summary, or the
\* default text when that is None or empty; the loop ends there and nothing
\* happens any more.  The step that applies a resolution without it goes back
\* to the prompt and shows no ending, and a turn ends the loop in no other way.
C18_GameOverIsFinal ==
    [][/\ pc # "done"
       /\ InTurn /\ plan'.kind = "returned" =>
             /\ \A resolution \in Resolutions :
                   TurnApplied(Answer(resolution)) =>
                           IF resolution.is_game_over
                           THEN /\ pc' = "done"
                                /\ Len(History') = Len(History) + 1
                                /\ shown' =
                                      <<View("display_turn_resolution", <<>>),
                                        View("display_game_over",
                                             IF resolution.ending_summary \in {None, <<>>}
                                             THEN <<"The story concludes here.">>
                                             ELSE resolution.ending_summary)>>
                           ELSE /\ pc' = "prompt"
                                /\ \A j \in 1..Len(shown') :
                                      shown'[j].call # "display_game_over"
       /\ InTurn /\ pc' = "done" =>
             /\ plan'.kind = "returned"
             /\ Len(shown') = 2
             /\ shown'[2].call = "display_game_over"]_vars

\* C18 happens: a retry was answered with a resolution that ends the game and
\* carries no ending_summary; the turn and the default ending were shown.
C18_Witness ==
    /\ pc = "done"
    /\ plan.kind = "returned"
    /\ plan.op = "retry"
    /\ Len(History) = 2
    /\ shown = <<View("display_turn_resolution", <<>>),
                 View("display_game_over", <<"The story concludes here.">>)>>

\* The inputs that are no turn: nothing and the log command, and the retry
\* command while no failed turn is stored.
NeverATurn ==
    {typed \in TypedMessages : StrStrip(typed) = <<>> \/ StrLower(StrStrip(typed)) = Log}

RetryTyped == {typed \in TypedMessages : StrLower(StrStrip(typed)) = Retry}

NotATurn == IF retry_message = None THEN NeverATurn \cup RetryTyped ELSE NeverATurn

\* The GameState and the stored retry_message stay as they are, no plan_turn
\* call starts, and the loop is back at the prompt with the turn started again.
NothingChanged ==
    /\ pc' = "prompt"
    /\ op' = "none" /\ requests' = 0 /\ plan' = plan
    /\ retry_message' = retry_message
    /\ state' = state
    /\ Len(shown') >= 2
    /\ shown'[2].call = "start_turn"

\* C20: a pass of the loop on an input that is no turn changes nothing; put
\* the other way round, a step from the prompt that changes something is a
\* pass on none of these inputs.
C20_NonTurnInputsChangeNothing ==
    [][pc = "prompt" /\ ~NothingChanged => \A typed \in NotATurn : ~TypedAtPrompt(typed)]_vars

\* C20 happens: after one recorded turn and a failed one, the log command
\* was typed; the failed message is still stored.
C20_Witness ==
    /\ pc = "prompt"
    /\ Len(History) = 1
    /\ shown[1] = View("display_error", <<"Journal saved">>)
    /\ retry_message = <<"g", "o">>
    /\ plan.kind = "raised"

(***************************************************************************)
(* Properties of the stored retry                                          *)
(***************************************************************************)
\* The last call of plan_turn, made for a played message or for a retry,
\* raised.
LastAttemptFailed == plan.op \in {"play", "retry"} /\ plan.kind = "raised"

\* C21: at every turn prompt a retry_message is stored exactly when the last
\* attempt at a turn, played or retried, raised, and it is then the player
\* message of that attempt; while a played message is with plan_turn nothing
\* is stored, and while a retry is with plan_turn the message it replays stays
\* stored.
C21_RetryIffLastAttemptFailed ==
    /\ pc = "prompt" =>
          /\ retry_message # None <=> LastAttemptFailed
          /\ LastAttemptFailed => retry_message = plan.message /\ retry_message # <<>>
    /\ pc = "request" /\ op = "play" => retry_message = None
    /\ pc = "request" /\ op = "retry" => retry_message = arg /\ arg # None

\* C21 happens: a played message failed, its retry failed as well, and the
\* same message is still stored at the prompt, after one recorded turn.
C21_Witness ==
    /\ pc = "prompt"
    /\ plan.op = "retry"
    /\ plan.kind = "raised"
    /\ retry_message = <<"g", "o">>
    /\ plan.message = <<"g", "o">>
    /\ Len(History) = 1
    /\ History[1].player_message = <<"H", "i">>

(***************************************************************************)
(* Properties of the roster                                                *)
(***************************************************************************)
\* The NPCState the deltas of a resolution are applied to: the one of the
\* roster under the active NPC's name, or, with no such name in the roster,
\* the one the resolution's active_npc describes.
Entering(resolution) ==
    IF resolution.active_npc.name \in DOMAIN state.npcs
    THEN state.npcs[resolution.active_npc.name]
    ELSE NPCStateOf(resolution.active_npc)

\* The resistance_change and relationship_change of a resolution as clamped
\* for its outcome.
ClampedDeltas(resolution) ==
    _normalize_deltas(normalised_outcome(resolution.outcome_type),
                      resolution.npc_resistance_change,
                      resolution.npc_relationship_change)

\* C22: a turn applied, the step that appends a record naming the
\* resolution's active NPC, leaves the roster with the names it had and the
\* active NPC's; every NPC but the active one is as it was; the active NPC
\* has the name, description and personality with which it stood in the
\* roster, or those of the resolution when it was not there, and its
\* counters are those it stood with, or those of the resolution when it was
\* not there, changed by the clamped deltas, resistance not below 0.
C22_OnlyActiveNpcTouched ==
    [][\A resolution \in TurnsResolutions :
          /\ Len(state'.turn_history) > Len(state.turn_history)
          /\ state'.turn_history[Len(state'.turn_history)].npc_name = resolution.active_npc.name
          /\ ApplyTurn(resolution)
          =>
          LET name == resolution.active_npc.name
              deltas == ClampedDeltas(resolution)
              active == state'.npcs[name]
          IN  /\ DOMAIN state'.npcs = DOMAIN state.npcs \cup {name}
              /\ \A n \in DOMAIN state.npcs \ {name} : state'.npcs[n] = state.npcs[n]
              /\ active.name = name
              /\ active.description = Entering(resolution).description
              /\ active.personality = Entering(resolution).personality
              /\ active.resistance = Max(0, Entering(resolution).resistance + deltas[1])
              /\ active.relationship = Entering(resolution).relationship + deltas[2]]_vars

\* C22 happens: a turn on Alex, who is in the roster, and a turn on Sam, who
\* is not; Iris is as the world made her, Alex kept his description and
\* went from resistance 1 to 0 where the payload's 4 would have left 1, and
\* Sam came in as the resolution described him and was then changed.
C22_Witness ==
    /\ Len(state.turn_history) = 2
    /\ state.turn_history[1].npc_name = "Alex"
    /\ state.turn_history[1].outcome_type = Success
    /\ state.turn_history[2].npc_name = "Sam"
    /\ state.turn_history[2].outcome_type = Failure
    /\ DOMAIN state.npcs = {"Alex", "Iris", "Sam"}
    /\ state.npcs["Iris"] = TurnsWorld.npcs["Iris"]
    /\ state.npcs["Alex"].description = ""
    /\ state.npcs["Alex"].resistance = 0
    /\ state.npcs["Alex"].relationship = 3
    /\ state.npcs["Sam"].description = "told"
    /\ state.npcs["Sam"].resistance = 3
    /\ state.npcs["Sam"].relationship = -2

(***************************************************************************)
(* Properties of narrative_context                                         *)
(***************************************************************************)
\* The turn numbers a summary mentions, in the order it mentions them.
RECURSIVE Mentioned(_)
Mentioned(summary) ==
    IF summary = <<>> THEN <<>>
    ELSE IF "turn" \notin DOMAIN summary[1] THEN Mentioned(Tail(summary))
    ELSE <<summary[1].turn>> \o Mentioned(Tail(summary))

\* The turn numbers of a recent list, in its order.
Listed(recent) == [i \in 1..Len(recent) |-> recent[i].turn]

\* The last call of narrative_context split the history: with n turns and k
\* the smaller of n and recent_limit, the recent list is the last k turns in
\* order and the summary mentions the n - k turns before them, in order,
\* being the empty string when there are none.
SplitsHistory ==
    LET n == Len(state.turn_history)
        k == Min(n, call.recent_limit)
    IN  /\ Listed(call.recent) = [i \in 1..k |-> n - k + i]
        /\ \A i \in 1..Len(call.recent) :
              call.recent[i].npc = state.turn_history[n - k + i].npc_name
        /\ Mentioned(call.summary) = [i \in 1..(n - k) |-> i]
        /\ n - k = 0 => call.summary = <<>>
        /\ \A i \in 1..Len(call.recent) : \A j \in 1..Len(Mentioned(call.summary)) :
              call.recent[i].turn # Mentioned(call.summary)[j]

\* C23: for every turn history and every recent_limit >= 0, narrative_context
\* returns the last min(n, recent_limit) turns as the recent list and a
\* summary of exactly the older turns, no turn in both and none missing.
C23_ContextSplitsHistory == call.made => SplitsHistory

\* The same for every recent_limit >= 1.
C23_PositiveLimitSplitsHistory == call.made /\ call.recent_limit >= 1 => SplitsHistory

\* A call with a positive recent_limit below the number of turns has split
\* the history in two parts that are not empty.
C23_Reached ==
    /\ call.made
    /\ call.recent_limit = 2
    /\ Len(state.turn_history) = 3
    /\ Listed(call.recent) = <<2, 3>>
    /\ Mentioned(call.summary) = <<1>>

====
